---- MODULE Spec2Model ----
(***************************************************************************)
(* A model of the pandemic simulator (src/src/main.rs): the Pandemic       *)
(* engine, its parameter panel, the per-frame step and the SpatialGrid.    *)
(*                                                                         *)
(* Numbers.  f32 coordinates are fixed-point integers, UnitsPerCell units  *)
(* to one grid cell; MOVE_AMOUNT = 0.01 cell per ms is then 1 unit per ms. *)
(* A heading is the pair (sin, cos) in units of 1/HeadingScale, taken from *)
(* exact rational unit vectors.  Times are integer milliseconds.           *)
(* Probabilities are percentages; the result of powf is one of the classes *)
(* "one", "zero", "mid" (strictly between) and "nan", which is all that    *)
(* random_bool distinguishes.                                              *)
(*                                                                         *)
(* A HashMap entry holding an empty Vec is not distinguished from a        *)
(* missing entry: no code path reads the difference.  The graph selector   *)
(* (GraphOptions) and graph_ui only read the engine and are left out.      *)
(***************************************************************************)
EXTENDS Integers, Sequences, FiniteSets, TLC

VARIABLES
    \* Pandemic: initial values
    init_infected, total,
    \* Pandemic: public params
    infection_prob, infection_time_s, death_prob, step_speed, paused,
    \* Pandemic: data
    grid, last_frame_time, time_elapsed,
    \* Pandemic: stats
    num_healthy, num_infected, num_recovered, num_dead, stats,
    \* the running step(): its position and locals
    pc, frame_time, people_to_move, visited,
    \* the host: the monotonic clock, a crash of the process
    now, fault,
    \* history: the total given to the last Pandemic::new, each person's last
    \* state, its state and cell when the running step began, how often the
    \* step's closure ran on it, and how many frames the host has run
    n, health, start, processed, frames

vars == <<init_infected, total, infection_prob, infection_time_s, death_prob,
          step_speed, paused, grid, last_frame_time, time_elapsed,
          num_healthy, num_infected, num_recovered, num_dead, stats,
          pc, frame_time, people_to_move, visited, now, fault,
          n, health, start, processed, frames>>

----------------------------------------------------------------------------
(* Program constants *)

X_MAX == 80
Y_MAX == 50
UnitsPerCell == 100
HeadingScale == 5
X_MAX_FLOAT == X_MAX * UnitsPerCell
Y_MAX_FLOAT == Y_MAX * UnitsPerCell
\* 1.5 / MOVE_AMOUNT, in ms
ContactTime == 150
MsPerSecond == 1000

DefaultInfectionProb == 50
DefaultInfectionTime == 14
DefaultDeathProb == 10
DefaultStepSpeed == 1

(* Bounds of the exploration *)

MaxFrames == 2

(* Inputs *)

\* time between two calls of update(), ms
FrameGaps == {0, 1000, 20000}
\* slider positions
InfectionProbChoices == {0, 50, 100}
DeathProbChoices == {0, 10}
InfectionTimeChoices == {0, 14}
PopulationChoices == {0, 1, 2}
\* the three play buttons
Speeds == {1, 2, 4}

West == [s |-> -5, c |-> 0]
SouthWest == [s |-> -3, c |-> -4]

\* outcomes of rand_person: (x, y, direction)
Placements ==
    { [x |-> 500, y |-> 150, dir |-> West],
      [x |-> 1150, y |-> 650, dir |-> SouthWest] }

----------------------------------------------------------------------------
(* InfectionState *)

Healthy == [tag |-> "Healthy", t |-> 0]
Infected(t) == [tag |-> "Infected", t |-> t]
Recovered == [tag |-> "Recovered", t |-> 0]
Dead == [tag |-> "Dead", t |-> 0]

----------------------------------------------------------------------------
(* Arithmetic *)

\* `v as i32` of a coordinate: truncation toward zero
AsI32(v) == IF v >= 0 THEN v \div UnitsPerCell ELSE -((-v) \div UnitsPerCell)

\* the HashMap key a person is stored under
KeyOf(p) == <<AsI32(p.x), AsI32(p.y)>>

\* f32::powf(base, num / den), base a percentage, by class
Powf(base, num, den) ==
    LET e == IF den = 0 THEN (IF num = 0 THEN "nan" ELSE "inf")
             ELSE (IF num = 0 THEN "zero" ELSE "pos")
    IN  CASE base = 100 -> "one"
          [] e = "nan" -> "nan"
          [] e = "zero" -> "one"
          [] base = 0 -> "zero"
          [] e = "inf" -> "zero"
          [] OTHER -> "mid"

\* the outcomes of random_bool(1.0 - q); it panics on NaN
RandomBool(q) ==
    CASE q = "one" -> {FALSE}
      [] q = "zero" -> {TRUE}
      [] q = "mid" -> BOOLEAN
      [] OTHER -> {}

----------------------------------------------------------------------------
(* SpatialGrid *)

EmptyGrid == [k \in {} |-> <<>>]

\* map.entry(key).or_default().push(person)
Push(g, p) ==
    LET k == KeyOf(p)
    IN  IF k \in DOMAIN g THEN [g EXCEPT ![k] = Append(@, p)]
        ELSE (k :> <<p>>) @@ g

RECURSIVE InsertAll(_, _)
InsertAll(g, ps) ==
    IF ps = <<>> THEN g ELSE InsertAll(Push(g, Head(ps)), Tail(ps))

\* a cell's Vec after extract_if; an emptied Vec is dropped
SetCell(g, k, ps) ==
    IF ps = <<>> THEN [kk \in DOMAIN g \ {k} |-> g[kk]]
    ELSE [g EXCEPT ![k] = ps]

\* every person stored in the grid
Residents(g) == UNION { { g[k][i] : i \in 1..Len(g[k]) } : k \in DOMAIN g }

\* the cells that store person a
CellsOf(g, a) == { k \in DOMAIN g : \E i \in 1..Len(g[k]) : g[k][i].id = a }

\* what step() finds when it begins: each person's state and cell
AtStart(g, h) == [a \in DOMAIN h |-> [st |-> h[a], cell |-> CellsOf(g, a)]]

\* SpatialGrid::new_with_capacity: persons 1..infected are Infected(0.0),
\* the others Healthy; pl gives each one's rand_person()
NewWithCapacity(infected, tot, pl) ==
    InsertAll(EmptyGrid,
              [i \in 1..tot |->
                  [id |-> i, x |-> pl[i].x, y |-> pl[i].y, dir |-> pl[i].dir,
                   st |-> IF i <= infected THEN Infected(0) ELSE Healthy]])

----------------------------------------------------------------------------
Init ==
    \E tot \in PopulationChoices :
      \E infected \in 0..tot :
        \E pl \in [1..tot -> Placements] :
          /\ init_infected = infected
          /\ total = tot
          /\ infection_prob = DefaultInfectionProb
          /\ infection_time_s = DefaultInfectionTime
          /\ death_prob = DefaultDeathProb
          /\ step_speed = DefaultStepSpeed
          /\ paused = FALSE
          /\ grid = NewWithCapacity(infected, tot, pl)
          /\ last_frame_time = 0
          /\ time_elapsed = 0
          /\ num_healthy = tot - infected
          /\ num_infected = infected
          /\ num_recovered = 0
          /\ num_dead = 0
          /\ stats = <<>>
          /\ pc = "idle"
          /\ frame_time = 0
          /\ people_to_move = <<>>
          /\ visited = <<>>
          /\ now = 0
          /\ fault = "none"
          /\ n = tot
          /\ health = [i \in 1..tot |-> IF i <= infected THEN Infected(0) ELSE Healthy]
          /\ start = AtStart(NewWithCapacity(infected, tot, pl),
                              [i \in 1..tot |-> IF i <= infected THEN Infected(0) ELSE Healthy])
          /\ processed = [i \in 1..tot |-> 0]
          /\ frames = 0

----------------------------------------------------------------------------
(* step(): the per-frame quantities *)

\* self.infection_time_s * 1000.0
InfectionTime == infection_time_s * MsPerSecond

\* a survival probability taken from death_prob instead of 1.0 - death_prob
SurviveThisFrameOfDeathProb == Powf(death_prob, frame_time, InfectionTime)

\* survival_prob.powf(frame_time / infection_time)
SurviveThisFrame == Powf(100 - death_prob, frame_time, InfectionTime)

\* an escape probability taken from infection_prob instead of 1.0 - infection_prob
NotInfectedThisFrameOfInfectionProb == Powf(infection_prob, frame_time, ContactTime)

\* infection_prob.powf(frame_time / (1.5 / MOVE_AMOUNT))
NotInfectedThisFrame == Powf(100 - infection_prob, frame_time, ContactTime)

\* "If OOB, flip direction & reflect back", one axis
Reflect(v, max) == IF v < 0 THEN -v ELSE IF v > max THEN 2 * max - v ELSE v

\* the closure's move of one person by dist_to_move = MOVE_AMOUNT * ft along
\* sin_cos(dir); both direction assignments read the direction of before the move
MovePerson(p, ft) ==
    LET x1 == p.x + (ft * p.dir.s) \div HeadingScale
        y1 == p.y + (ft * p.dir.c) \div HeadingScale
        xOut == x1 < 0 \/ x1 > X_MAX_FLOAT
        yOut == y1 < 0 \/ y1 > Y_MAX_FLOAT
    IN  [p EXCEPT !.x = Reflect(x1, X_MAX_FLOAT),
                  !.y = Reflect(y1, Y_MAX_FLOAT),
                  !.dir = IF yOut THEN [s |-> p.dir.s, c |-> -p.dir.c]
                          ELSE IF xOut THEN [s |-> -p.dir.s, c |-> p.dir.c]
                          ELSE p.dir]

\* a health update in which a finished infection leaves the person Healthy
HealthUpdateSusceptibleAgain(st, ft, died) ==
    IF st.tag # "Infected" THEN st
    ELSE IF died THEN Dead
    ELSE IF st.t + ft > InfectionTime THEN Healthy
    ELSE Infected(st.t + ft)

\* a health update that recovers a person already at the infection time
HealthUpdateRecoversAtLimit(st, ft, died) ==
    IF st.tag # "Infected" THEN st
    ELSE IF died THEN Dead
    ELSE IF st.t + ft >= InfectionTime THEN Recovered
    ELSE Infected(st.t + ft)

\* a health update after which the Recovered fall ill again
HealthUpdateRelapse(st, ft, died) ==
    IF st = Recovered THEN Infected(0)
    ELSE IF st.tag # "Infected" THEN st
    ELSE IF died THEN Dead
    ELSE IF st.t + ft > InfectionTime THEN Recovered
    ELSE Infected(st.t + ft)

\* a health update that does not advance the infection clock
HealthUpdateFrozenClock(st, ft, died) ==
    IF st.tag # "Infected" THEN st
    ELSE IF died THEN Dead
    ELSE IF st.t + ft > InfectionTime THEN Recovered
    ELSE Infected(st.t)

\* the closure's health update: the death roll, then the infection clock
HealthUpdate(st, ft, died) ==
    IF st.tag # "Infected" THEN st
    ELSE IF died THEN Dead
    ELSE IF st.t + ft > InfectionTime THEN Recovered
    ELSE Infected(st.t + ft)

\* a closure that extracts only the dead and leaves the movers in the cell
ClosureKeepsMovers(p, k, ft, died) ==
    LET q == [MovePerson(p, ft) EXCEPT !.st = HealthUpdate(p.st, ft, died)]
    IN  [person |-> q, extract |-> q.st = Dead]

\* the extract_if closure on a person of cell k: the person as left behind,
\* and whether it is extracted
Closure(p, k, ft, died) ==
    LET q == [MovePerson(p, ft) EXCEPT !.st = HealthUpdate(p.st, ft, died)]
    IN  [person |-> q, extract |-> q.st = Dead \/ KeyOf(q) # k]

\* an infection test that reads the roll the wrong way round
ExposedInverted(st, contains_infected, caught) ==
    IF contains_infected /\ st = Healthy /\ ~caught THEN Infected(0) ELSE st

\* infection testing of one person left in a cell
Exposed(st, contains_infected, caught) ==
    IF contains_infected /\ st = Healthy /\ caught THEN Infected(0) ELSE st

\* an extraction that pushes the extracted into their new cells at once
ExtractedEager(g, waiting, moved) ==
    [grid |-> InsertAll(g, SelectSeq(moved, LAMBDA p : p.st # Dead)),
     people_to_move |-> waiting]

\* people_to_move.extend(people.extract_if(..)): the extracted wait outside the grid
Extracted(g, waiting, moved) ==
    [grid |-> g, people_to_move |-> waiting \o moved]

\* counters that book a recovery under num_dead
TallyRecoveryAsDeath(deaths, recoveries, infections) ==
    [num_healthy |-> num_healthy - infections,
     num_infected |-> num_infected - deaths - recoveries + infections,
     num_recovered |-> num_recovered,
     num_dead |-> num_dead + deaths + recoveries]

\* counters that miss "self.num_dead += 1"
TallyForgetsDead(deaths, recoveries, infections) ==
    [num_healthy |-> num_healthy - infections,
     num_infected |-> num_infected - deaths - recoveries + infections,
     num_recovered |-> num_recovered + recoveries,
     num_dead |-> num_dead]

\* the counters after deaths, recoveries and infections
Tally(deaths, recoveries, infections) ==
    [num_healthy |-> num_healthy - infections,
     num_infected |-> num_infected - deaths - recoveries + infections,
     num_recovered |-> num_recovered + recoveries,
     num_dead |-> num_dead + deaths]

\* a reinsertion without the "if person.state == Dead { continue }"
ReinsertedWithDead(g, waiting) == InsertAll(g, waiting)

\* the "Move all people that need to be moved" loop
Reinserted(g, waiting) ==
    InsertAll(g, SelectSeq(waiting, LAMBDA p : p.st # Dead))

Snapshot ==
    [time |-> time_elapsed, num_healthy |-> num_healthy,
     num_infected |-> num_infected, num_recovered |-> num_recovered,
     num_dead |-> num_dead]

----------------------------------------------------------------------------
(* step(), as the steps of its loops *)

paramVars == <<init_infected, total, infection_prob, infection_time_s,
               death_prob, step_speed, paused>>
counterVars == <<num_healthy, num_infected, num_recovered, num_dead>>
hostVars == <<now, frames>>

\* the death rolls and the infection rolls a cell's scan can draw
DeathRolls(ps) ==
    { f \in [1..Len(ps) -> BOOLEAN] :
        \A i \in 1..Len(ps) :
            f[i] \in (IF ps[i].st.tag = "Infected"
                      THEN RandomBool(SurviveThisFrame) ELSE {FALSE}) }

InfectionRolls(res, contains_infected) ==
    { f \in [1..Len(res) -> BOOLEAN] :
        \A i \in 1..Len(res) :
            f[i] \in (IF ~res[i].extract /\ contains_infected
                      THEN RandomBool(NotInfectedThisFrame) ELSE {FALSE}) }

\* the scan of cell k holding ps, for given rolls: extract_if, then the
\* infection testing of those left
ScanOutcome(ps, k, ft, died, caught) ==
    LET idx == 1..Len(ps)
        res == [i \in idx |-> Closure(ps[i], k, ft, died[i])]
        contains_infected ==
            \E i \in idx : ~res[i].extract /\ res[i].person.st.tag = "Infected"
        fin == [i \in idx |->
                  IF res[i].extract THEN res[i]
                  ELSE [res[i] EXCEPT !.person.st =
                            Exposed(@, contains_infected, caught[i])]]
        kept == SelectSeq(fin, LAMBDA r : ~r.extract)
        moved == SelectSeq(fin, LAMBDA r : r.extract)
    IN  [kept |-> [i \in 1..Len(kept) |-> kept[i].person],
         moved |-> [i \in 1..Len(moved) |-> moved[i].person],
         deaths |-> Cardinality({i \in idx : ps[i].st.tag = "Infected"
                                               /\ res[i].person.st = Dead}),
         recoveries |-> Cardinality({i \in idx : ps[i].st.tag = "Infected"
                                               /\ res[i].person.st = Recovered}),
         infections |-> Cardinality({i \in idx : fin[i].person.st # res[i].person.st}),
         st |-> [i \in idx |-> fin[i].person.st]]

ScanOutcomes(ps, k, ft) ==
    UNION { LET res == [i \in 1..Len(ps) |-> Closure(ps[i], k, ft, died[i])]
                contains_infected ==
                    \E i \in 1..Len(ps) : ~res[i].extract /\ res[i].person.st.tag = "Infected"
            IN  { ScanOutcome(ps, k, ft, died, caught) :
                    caught \in InfectionRolls(res, contains_infected) }
            : died \in DeathRolls(ps) }

Range(f) == { f[i] : i \in DOMAIN f }

\* the loop over the cells has yielded every cell
ScanDone == pc = "scan" /\ DOMAIN grid \subseteq Range(visited)

\* one iteration of "for ((x_pos, y_pos), people) in self.grid.0.iter_mut()",
\* in whatever order the HashMap yields the cells
StepScanCell(k) ==
    /\ pc = "scan"
    /\ fault = "none"
    /\ k \in DOMAIN grid \ Range(visited)
    /\ LET ps == grid[k]
           idx == 1..Len(ps)
       IN  IF SurviveThisFrame = "nan" /\ \E i \in idx : ps[i].st.tag = "Infected"
           THEN /\ fault' = "random_bool"
                /\ UNCHANGED <<grid, people_to_move, visited, counterVars,
                               health, processed>>
           ELSE \E o \in ScanOutcomes(ps, k, frame_time) :
                LET out == Extracted(SetCell(grid, k, o.kept), people_to_move, o.moved)
                    tally == Tally(o.deaths, o.recoveries, o.infections)
                IN  /\ grid' = out.grid
                    /\ people_to_move' = out.people_to_move
                    /\ visited' = Append(visited, k)
                    /\ num_healthy' = tally.num_healthy
                    /\ num_infected' = tally.num_infected
                    /\ num_recovered' = tally.num_recovered
                    /\ num_dead' = tally.num_dead
                    /\ health' = [a \in DOMAIN health |->
                                    IF \E i \in idx : ps[i].id = a
                                    THEN o.st[CHOOSE i \in idx : ps[i].id = a]
                                    ELSE health[a]]
                    /\ processed' = [a \in DOMAIN processed |->
                                    processed[a] + Cardinality({i \in idx : ps[i].id = a})]
                    /\ fault' = fault
    /\ UNCHANGED <<paramVars, hostVars, last_frame_time, time_elapsed, stats,
                   pc, frame_time, n, start>>

\* after the loop: reinsertion, and the snapshot
StepRelocate ==
    /\ pc = "scan"
    /\ fault = "none"
    /\ ScanDone
    /\ grid' = Reinserted(grid, people_to_move)
    /\ stats' = Append(stats, Snapshot)
    /\ pc' = "idle"
    /\ people_to_move' = <<>>
    /\ visited' = <<>>
    /\ UNCHANGED <<paramVars, hostVars, counterVars, last_frame_time,
                   time_elapsed, frame_time, fault, n, health, start, processed>>

----------------------------------------------------------------------------
(* update(): one frame of the host loop *)

\* the time accounting that opens step(), with the clock reading nowv
StepBegin(nowv, lft, speed) ==
    /\ frame_time' = (nowv - lft) * speed
    /\ time_elapsed' = time_elapsed + (nowv - lft)
    /\ last_frame_time' = nowv
    /\ pc' = "scan"
    /\ start' = AtStart(grid, health)
    /\ processed' = [a \in DOMAIN processed |-> 0]

\* the CentralPanel closure: render, then step unless paused; lft, speed and
\* pausedv are the fields as params_ui left them in this frame
Central(nowv, lft, speed, pausedv) ==
    /\ now' = nowv
    /\ frames' = frames + 1
    /\ IF \E p \in Residents(grid) : p.st = Dead
       THEN /\ fault' = "unreachable"
            /\ last_frame_time' = lft
            /\ UNCHANGED <<frame_time, time_elapsed, pc, start, processed>>
       ELSE /\ fault' = fault
            /\ IF pausedv
               THEN /\ last_frame_time' = lft
                    /\ UNCHANGED <<frame_time, time_elapsed, pc, start, processed>>
               ELSE StepBegin(nowv, lft, speed)

FrameReady == pc = "idle" /\ fault = "none" /\ frames < MaxFrames

engineVars == <<grid, counterVars, stats, people_to_move, visited, n, health>>

\* a frame in which no widget is used
Frame(d) ==
    /\ FrameReady
    /\ Central(now + d, last_frame_time, step_speed, paused)
    /\ UNCHANGED <<paramVars, engineVars>>

\* the pause button
ClickPause(d) ==
    /\ FrameReady
    /\ paused' = TRUE
    /\ Central(now + d, last_frame_time, step_speed, TRUE)
    /\ UNCHANGED <<init_infected, total, infection_prob, infection_time_s,
                   death_prob, step_speed, engineVars>>

\* play buttons that miss "self.last_frame_time = Instant::now()"
ClickPlayKeepsClock(d, speed) ==
    /\ FrameReady
    /\ step_speed' = speed
    /\ paused' = FALSE
    /\ Central(now + d, last_frame_time, speed, FALSE)
    /\ UNCHANGED <<init_infected, total, infection_prob, infection_time_s,
                   death_prob, engineVars>>

\* the three play buttons
ClickPlay(d, speed) ==
    /\ FrameReady
    /\ step_speed' = speed
    /\ paused' = FALSE
    /\ Central(now + d, now + d, speed, FALSE)
    /\ UNCHANGED <<init_infected, total, infection_prob, infection_time_s,
                   death_prob, engineVars>>

\* Pandemic::new(infected, tot) as the reset button calls it; `total - infected`
\* overflows when infected > tot: a panic with overflow checks, and without them
\* a loop of 2^64 - (infected - tot) pushes that ends in an abort
ClickReset(d) ==
    /\ FrameReady
    /\ now' = now + d
    /\ frames' = frames + 1
    /\ IF init_infected > total
       THEN /\ fault' = "sub_overflow"
            /\ UNCHANGED <<paramVars, engineVars, last_frame_time, time_elapsed,
                           start, processed>>
       ELSE \E pl \in [1..total -> Placements] :
            /\ grid' = NewWithCapacity(init_infected, total, pl)
            /\ last_frame_time' = now + d
            /\ time_elapsed' = 0
            /\ num_healthy' = total - init_infected
            /\ num_infected' = init_infected
            /\ num_recovered' = 0
            /\ num_dead' = 0
            /\ stats' = <<>>
            /\ step_speed' = DefaultStepSpeed
            /\ paused' = TRUE
            /\ n' = total
            /\ health' = [i \in 1..total |-> IF i <= init_infected THEN Infected(0) ELSE Healthy]
            /\ start' = AtStart(grid', health')
            /\ processed' = [i \in 1..total |-> 0]
            /\ fault' = fault
            /\ UNCHANGED <<init_infected, total, infection_prob, infection_time_s,
                           death_prob, people_to_move, visited>>
    /\ UNCHANGED <<pc, frame_time>>

\* the sliders
SlideInitInfected(d, v) ==
    /\ FrameReady
    /\ v # init_infected
    /\ init_infected' = v
    /\ Central(now + d, last_frame_time, step_speed, paused)
    /\ UNCHANGED <<total, infection_prob, infection_time_s, death_prob,
                   step_speed, paused, engineVars>>

SlideTotal(d, v) ==
    /\ FrameReady
    /\ v # total
    /\ total' = v
    /\ Central(now + d, last_frame_time, step_speed, paused)
    /\ UNCHANGED <<init_infected, infection_prob, infection_time_s, death_prob,
                   step_speed, paused, engineVars>>

SlideDeathProb(d, v) ==
    /\ FrameReady
    /\ v # death_prob
    /\ death_prob' = v
    /\ Central(now + d, last_frame_time, step_speed, paused)
    /\ UNCHANGED <<init_infected, total, infection_prob, infection_time_s,
                   step_speed, paused, engineVars>>

SlideInfectionProb(d, v) ==
    /\ FrameReady
    /\ v # infection_prob
    /\ infection_prob' = v
    /\ Central(now + d, last_frame_time, step_speed, paused)
    /\ UNCHANGED <<init_infected, total, infection_time_s, death_prob,
                   step_speed, paused, engineVars>>

SlideInfectionTime(d, v) ==
    /\ FrameReady
    /\ v # infection_time_s
    /\ infection_time_s' = v
    /\ Central(now + d, last_frame_time, step_speed, paused)
    /\ UNCHANGED <<init_infected, total, infection_prob, death_prob,
                   step_speed, paused, engineVars>>

----------------------------------------------------------------------------
Next ==
    \/ \E k \in DOMAIN grid : StepScanCell(k)
    \/ StepRelocate
    \/ \E d \in FrameGaps :
         \/ Frame(d)
         \/ ClickPause(d)
         \/ \E speed \in Speeds : ClickPlay(d, speed)
         \/ ClickReset(d)
         \/ \E v \in PopulationChoices : SlideInitInfected(d, v)
         \/ \E v \in PopulationChoices : SlideTotal(d, v)
         \/ \E v \in DeathProbChoices : SlideDeathProb(d, v)
         \/ \E v \in InfectionProbChoices : SlideInfectionProb(d, v)
         \/ \E v \in InfectionTimeChoices : SlideInfectionTime(d, v)

Spec == Init /\ [][Next]_vars

----------------------------------------------------------------------------
(* The host loop kept running: update() ends with ctx.request_repaint(), so *)
(* frames keep coming, and the loops of step() terminate.  Here time passes *)
(* between any two frames, nothing is clicked, and the only slider moved is *)
(* the death probability, to 0.                                             *)

\* time between two calls of update(), ms
LiveGaps == {8000, 20000}

LiveNext ==
    \/ \E k \in DOMAIN grid : StepScanCell(k)
    \/ StepRelocate
    \/ \E d \in LiveGaps : Frame(d)
    \/ \E d \in LiveGaps : SlideDeathProb(d, 0)

LiveSpec == Init /\ [][LiveNext]_vars /\ WF_vars(LiveNext)

----------------------------------------------------------------------------
(* Properties *)

Ids == DOMAIN health

\* person a is stored in the grid
Stored(a) == CellsOf(grid, a) # {}

\* a and b were stored in the same cell when the step began
SharedCell(a, b) ==
    a # b /\ start[a].cell # {} /\ start[a].cell = start[b].cell

\* how often person a is held, over all cells and people_to_move
Occurrences(a) ==
    Cardinality({ ki \in UNION { {k} \X (1..Len(grid[k])) : k \in DOMAIN grid } :
                    grid[ki[1]][ki[2]].id = a })
    + Cardinality({ i \in 1..Len(people_to_move) : people_to_move[i].id = a })

InDomain(p) ==
    /\ 0 <= p.x /\ p.x <= X_MAX_FLOAT
    /\ 0 <= p.y /\ p.y <= Y_MAX_FLOAT

\* floor of a coordinate, in cells
Floor(v) == v \div UnitsPerCell

\* C1: after Pandemic::new and after every step, whatever the frame times and
\* the parameter changes, num_healthy + num_infected + num_recovered + num_dead
\* equals the total the population was built with.
C1_PopulationConserved ==
    num_healthy + num_infected + num_recovered + num_dead = n

C1_Witness ==
    /\ pc = "idle" /\ fault = "none"
    /\ Len(stats) = 2
    /\ n = 2 /\ num_dead = 1 /\ num_recovered = 1
    /\ infection_prob # DefaultInfectionProb

\* the health changes the claim C2 allows within one step
LegalTick(a, b) ==
    \/ a = b
    \/ a = Healthy /\ b = Infected(0)
    \/ a.tag = "Infected" /\ b.tag \in {"Infected", "Recovered", "Dead"}

\* C2: from the beginning of a step to any later point of it, a person's state
\* changes only Healthy -> Infected(0), Infected(t) -> Infected(t'),
\* Infected -> Recovered or Infected -> Dead; outside a reset no single
\* transition of the program changes it otherwise, so Recovered and Dead are
\* final.
C2_LegalTransitions ==
    /\ [](/\ \A p \in Residents(grid) \cup Range(people_to_move) :
                p.st = health[p.id]
           /\ \A a \in Ids : LegalTick(start[a].st, health[a]))
    /\ [][\/ \E d \in FrameGaps : ClickReset(d)
          \/ \A a \in Ids : LegalTick(health[a], health'[a])]_vars

C2_Witness ==
    /\ ScanDone
    /\ \E a \in Ids : start[a].st = Recovered /\ processed[a] = 1
    /\ \E b \in Ids : health[b] = Dead

\* C3: after every step each person stored in the grid has
\* 0 <= x <= X_MAX_FLOAT and 0 <= y <= Y_MAX_FLOAT.
C3_DomainContainment ==
    pc = "idle" => \A p \in Residents(grid) : InDomain(p)

\* the case of C4: a step of 1000 ms with infection_prob = 1.0
C4_Case == ScanDone /\ infection_prob = 100 /\ frame_time = 1000

\* C4: with infection_prob = 1.0 and a step of 1000 ms, a Healthy person that
\* began the step in a cell together with an Infected one is Infected(0)
\* after the scan exactly when it is still stored in that cell and so is a
\* person of that cell that is still Infected; otherwise it is still Healthy.
C4_InfectsThoseLeftTogether ==
    C4_Case =>
        \A a, b \in Ids :
            (SharedCell(a, b) /\ start[a].st.tag = "Infected" /\ start[b].st = Healthy)
            => /\ health[b] \in {Healthy, Infected(0)}
               /\ health[b] = Infected(0) <=>
                    /\ Stored(b)
                    /\ \E c \in Ids : /\ SharedCell(c, b)
                                      /\ Stored(c)
                                      /\ health[c].tag = "Infected"
                                      /\ start[c].st.tag = "Infected"

C4_Witness ==
    /\ C4_Case
    /\ \E a, b \in Ids : /\ SharedCell(a, b)
                         /\ start[a].st.tag = "Infected"
                         /\ start[b].st = Healthy
                         /\ health[b] = Infected(0)

\* C4 as stated: with infection_prob = 1.0 and a step of 1000 ms, a Healthy
\* person that began the step in a cell together with an Infected one is
\* Infected(0) afterwards, wherever in the cell the two were and whatever
\* their headings.
C4_SameCellAlwaysInfects ==
    C4_Case =>
        \A a, b \in Ids :
            (SharedCell(a, b) /\ start[a].st.tag = "Infected" /\ start[b].st = Healthy)
            => health[b] = Infected(0)

\* C5: no population is ever built with more initially infected than total:
\* `total - infected` is never computed with infected > total.
C5_OversizedInitRejected == fault # "sub_overflow"

\* C6: no step runs with an infection time of zero, so the exponent
\* frame_time / infection_time never divides by zero.
C6_NoTickWithZeroDuration == pc = "scan" => InfectionTime > 0

\* C7: for a population built with total 0, a step leaves the grid, the four
\* counters, time_elapsed and stats unchanged.
C7_EmptyTickIsNoOp ==
    [][(n = 0 /\ (pc = "scan" \/ pc' = "scan"))
          => UNCHANGED <<grid, counterVars, time_elapsed, stats>>]_vars

\* the place of cell k in the order the loop yielded the cells
ScanOrder(k) == CHOOSE i \in 1..Len(visited) : visited[i] = k

\* C8: within a step the closure runs at most once on a person, and exactly
\* once on every person the grid stored when the step began once the loop
\* is over; at no point is a person held twice, in two cells, twice in a
\* cell, or in a cell and in people_to_move.
C8_ProcessedOnceStoredOnce ==
    /\ \A a \in Ids : processed[a] <= 1 /\ Occurrences(a) <= 1
    /\ \A a \in Ids : Cardinality(CellsOf(grid, a)) <= 1
    /\ ScanDone =>
         \A a \in Ids : processed[a] = (IF start[a].cell # {} THEN 1 ELSE 0)

C8_Witness ==
    /\ ScanDone
    /\ \E i \in 1..Len(people_to_move) :
         LET m == people_to_move[i]
         IN  /\ m.st # Dead
             /\ KeyOf(m) \in Range(visited)
             /\ \E ks \in start[m.id].cell :
                    ScanOrder(ks) < ScanOrder(KeyOf(m))
             /\ processed[m.id] = 1

\* C9: between steps every person stored under key (cx, cy) has
\* cx = floor(x) and cy = floor(y).
C9_KeyIsFloor ==
    pc = "idle" =>
        \A k \in DOMAIN grid : \A i \in 1..Len(grid[k]) :
            k = <<Floor(grid[k][i].x), Floor(grid[k][i].y)>>

\* C10: no cell ever stores a Dead person, so render never reaches its
\* unreachable!, and a person that has died is stored in no cell from then on.
C10_NoDeadInIndex ==
    /\ \A p \in Residents(grid) : p.st # Dead
    /\ fault # "unreachable"
    /\ \A a \in Ids : health[a] = Dead => ~Stored(a)

C10_Witness ==
    /\ pc = "idle" /\ fault = "none"
    /\ Len(stats) = 2
    /\ \E a \in Ids : start[a].st = Dead /\ health[a] = Dead

\* C11: each snapshot pushed to stats has a time strictly greater than the
\* snapshot before it.
C11_SnapshotsStrictlyOrdered ==
    \A i \in 1..(Len(stats) - 1) : stats[i].time < stats[i + 1].time

\* the least time between two frames of LiveSpec, and its largest population
MinLiveGap == CHOOSE g \in LiveGaps : \A h \in LiveGaps : g <= h
MaxPopulation == CHOOSE m \in PopulationChoices : \A v \in PopulationChoices : v <= m

\* the infection time still to come for person a, at least: what the running
\* step will add, and what the frames still to come will
TimeAhead(a) ==
    (IF pc = "scan" /\ processed[a] = 0 THEN frame_time ELSE 0)
    + (MaxFrames - frames) * MinLiveGap * step_speed

\* person a is Infected, death_prob is 0, infection_time is positive, and the
\* infection clock of a will exceed it within the frames still to come
RecoveryDue(a) ==
    /\ a \in Ids
    /\ health[a].tag = "Infected"
    /\ death_prob = 0
    /\ InfectionTime > 0
    /\ health[a].t + TimeAhead(a) > InfectionTime

HasRecovered(a) == a \in Ids /\ health[a] = Recovered

\* C12: with death_prob = 0 and a positive infection time, while frames with
\* time passing keep coming, an Infected person whose infection clock will
\* exceed infection_time within the frames still to come becomes Recovered.
C12_InfectedEventuallyRecovers ==
    \A a \in 1..MaxPopulation : RecoveryDue(a) ~> HasRecovered(a)

C12_Witness ==
    /\ pc = "idle" /\ death_prob = 0
    /\ \E a \in Ids : /\ start[a].st = Infected(MinLiveGap)
                      /\ MinLiveGap <= InfectionTime
                      /\ health[a] = Recovered

\* how many persons were in state st when the step began
CountAtStart(st) == Cardinality({ a \in Ids : start[a].st = st })

\* C13: a step that runs with death_prob = 0 kills nobody, whatever its frame
\* time and the infection time: who is Dead was Dead when the step began, and
\* num_dead is what it was then.
C13_NoDeathAtZeroProbability ==
    (pc = "scan" /\ death_prob = 0) =>
        /\ \A a \in Ids : health[a] = Dead => start[a].st = Dead
        /\ num_dead = CountAtStart(Dead)
        /\ fault = "none"

C13_Witness ==
    /\ ScanDone /\ death_prob = 0 /\ frame_time > 0
    /\ \E a \in Ids : start[a].st.tag = "Infected" /\ processed[a] = 1

\* C14: a step that runs with infection_prob = 0 infects nobody, whoever
\* shares a cell with whom: who was Healthy when the step began is Healthy,
\* and num_healthy is what it was then.
C14_NoInfectionAtZeroProbability ==
    (pc = "scan" /\ infection_prob = 0) =>
        /\ \A a \in Ids : start[a].st = Healthy => health[a] = Healthy
        /\ num_healthy = CountAtStart(Healthy)

C14_Witness ==
    /\ ScanDone /\ infection_prob = 0 /\ frame_time > 0
    /\ \E a, b \in Ids : /\ SharedCell(a, b)
                         /\ Stored(a) /\ Stored(b)
                         /\ health[a].tag = "Infected"
                         /\ start[b].st = Healthy

\* nobody was Infected when the last step began
NoneInfectedAtStart == \A a \in Ids : start[a].st.tag # "Infected"

\* C15: when a step begins with nobody Infected, nobody's state changes in it,
\* whatever the parameters, and the snapshot it pushes has num_infected = 0
\* and the counts of Healthy, Recovered and Dead of the step's beginning.
C15_NoInfectionWithoutInfected ==
    NoneInfectedAtStart =>
        /\ \A a \in Ids : health[a] = start[a].st
        /\ num_infected = 0
        /\ num_healthy = CountAtStart(Healthy)
        /\ num_recovered = CountAtStart(Recovered)
        /\ num_dead = CountAtStart(Dead)
        /\ (pc = "idle" /\ stats # <<>>) =>
              LET last == stats[Len(stats)]
              IN  /\ last.num_infected = 0
                  /\ last.num_healthy = CountAtStart(Healthy)
                  /\ last.num_recovered = CountAtStart(Recovered)
                  /\ last.num_dead = CountAtStart(Dead)

C15_Witness ==
    /\ pc = "idle" /\ stats # <<>> /\ frame_time > 0
    /\ NoneInfectedAtStart
    /\ \E a, b \in Ids : /\ start[a].st = Healthy /\ processed[a] = 1
                         /\ start[b].st = Recovered /\ processed[b] = 1

\* C16: when the scan of a cell reflects a person's x coordinate, the x
\* component of its heading is negated, and when it reflects the y
\* coordinate, the y component is; both are when both coordinates are
\* reflected.
C16_ReflectionPerAxis ==
    [][(pc = "scan" /\ visited' # visited) =>
          LET k == visited'[Len(visited')]
          IN  \A i \in 1..Len(grid[k]) :
                LET p == grid[k][i]
                    q == CHOOSE r \in Residents(grid') \cup Range(people_to_move') :
                            r.id = p.id
                    x1 == p.x + (frame_time * p.dir.s) \div HeadingScale
                    y1 == p.y + (frame_time * p.dir.c) \div HeadingScale
                IN  /\ (x1 < 0 \/ x1 > X_MAX_FLOAT) => q.dir.s = -p.dir.s
                    /\ (y1 < 0 \/ y1 > Y_MAX_FLOAT) => q.dir.c = -p.dir.c]_vars

\* person a is still stored in the cell it began the step in, and its
\* position after the move lies in that cell
StillResident(a) ==
    \E k \in start[a].cell : \E i \in 1..Len(grid[k]) :
        grid[k][i].id = a /\ KeyOf(grid[k][i]) = k

\* C17: in a step a Healthy person becomes Infected(0) only if, after the
\* move and the health update, it is still stored in its cell and so is a
\* person of that cell that is still Infected; who left the cell, died or
\* recovered in the step neither infects anybody nor is infected.
C17_TransmissionAmongResidents ==
    pc = "scan" =>
        \A b \in Ids :
            (start[b].st = Healthy /\ health[b] # Healthy) =>
                /\ health[b] = Infected(0)
                /\ StillResident(b)
                /\ \E c \in Ids : /\ SharedCell(c, b)
                                  /\ StillResident(c)
                                  /\ start[c].st.tag = "Infected"
                                  /\ health[c].tag = "Infected"

C17_Witness ==
    /\ ScanDone /\ infection_prob = 100 /\ frame_time > 0
    /\ \E i \in 1..Len(people_to_move) :
         LET m == people_to_move[i]
         IN  /\ m.st = Healthy
             /\ KeyOf(m) \in DOMAIN grid
             /\ \E j \in 1..Len(grid[KeyOf(m)]) :
                    grid[KeyOf(m)][j].st.tag = "Infected"

\* time_elapsed as the step before the running one left it
LastSnapshotTime == IF stats = <<>> THEN 0 ELSE stats[Len(stats)].time

\* C18: in a step, frame_time is the real time elapsed times step_speed; an
\* Infected(t) that the closure ran on and that did not die is Recovered
\* exactly when t + frame_time > infection_time and Infected(t + frame_time)
\* otherwise, also when t + frame_time = infection_time; a person infected in
\* the step is Infected(0).
C18_InfectedStep ==
    pc = "scan" =>
        /\ frame_time = (time_elapsed - LastSnapshotTime) * step_speed
        /\ \A a \in Ids :
            /\ (start[a].st.tag = "Infected" /\ processed[a] = 1 /\ health[a] # Dead) =>
                  health[a] = (IF start[a].st.t + frame_time > InfectionTime
                               THEN Recovered
                               ELSE Infected(start[a].st.t + frame_time))
            /\ (start[a].st.tag = "Infected" /\ processed[a] = 0) =>
                  health[a] = start[a].st
            /\ (start[a].st = Healthy /\ health[a] # Healthy) =>
                  health[a] = Infected(0)

C18_Witness ==
    /\ ScanDone
    /\ \E a \in Ids : /\ start[a].st.tag = "Infected"
                      /\ processed[a] = 1
                      /\ start[a].st.t + frame_time = InfectionTime
                      /\ health[a] = Infected(InfectionTime)

\* C19: the time of the snapshot a step pushes is the time of the snapshot
\* before it plus the step's frame_time, so that the snapshots carry the sum
\* of the frame times, at every step_speed.
C19_SnapshotTimeIsSimulatedTime ==
    pc = "scan" => time_elapsed = LastSnapshotTime + frame_time

\* how many persons the grid stores with a state of the given tag
StoredWith(tag) == Cardinality({ p \in Residents(grid) : p.st.tag = tag })

\* C20: after Pandemic::new and after every step, num_healthy, num_infected
\* and num_recovered are the numbers of persons the grid stores as Healthy,
\* Infected and Recovered, and num_dead is the total less the number of
\* persons stored; no counter is ever negative.
C20_CountersAgreeWithIndex ==
    /\ num_healthy >= 0 /\ num_infected >= 0
    /\ num_recovered >= 0 /\ num_dead >= 0
    /\ pc = "idle" =>
         /\ num_healthy = StoredWith("Healthy")
         /\ num_infected = StoredWith("Infected")
         /\ num_recovered = StoredWith("Recovered")
         /\ num_dead = n - Cardinality(Residents(grid))
         /\ \A a \in Ids : Occurrences(a) = (IF health[a] = Dead THEN 0 ELSE 1)

C20_Witness ==
    /\ pc = "idle" /\ fault = "none"
    /\ Len(stats) = 2
    /\ num_dead = 1 /\ num_infected = 1
    /\ \E p \in Residents(grid) : p.st.tag = "Infected" /\ p.st.t > 0

\* C21: step() runs only when the simulation is not paused; a frame that
\* leaves it paused, other than a reset, leaves the grid, the counters,
\* time_elapsed and stats as they were; and the step of the frame that
\* resumes it measures its time from the click: frame_time is 0 and
\* time_elapsed is not advanced, however long the pause was.
C21_PauseAndResume ==
    /\ [](pc = "scan" => ~paused)
    /\ [][(pc = "idle" /\ paused' /\ ~(\E d \in FrameGaps : ClickReset(d)))
             => /\ pc' = "idle"
                /\ UNCHANGED <<grid, counterVars, time_elapsed, stats>>]_vars
    /\ [][(paused /\ ~paused')
             => /\ pc' = "scan"
                /\ frame_time' = 0
                /\ time_elapsed' = time_elapsed
                /\ last_frame_time' = now']_vars

C21_Witness ==
    /\ pc = "scan" /\ ~paused
    /\ frames = 2 /\ stats = <<>>
    /\ now > 0 /\ last_frame_time = now
    /\ time_elapsed = 0 /\ frame_time = 0
    /\ Residents(grid) # {}

====
